---- MODULE Spec2Model ----
(***************************************************************************)
(* Model of vedalipi_ml_pipeline.py: the /process pipeline (OCR,           *)
(* transliteration, translation, interpretation, store into                *)
(* global_context) and the /chatbot handler that replays global_context    *)
(* into a generative call.  Requests are served by concurrent threads;     *)
(* one action is the code a handler runs between two blocking points       *)
(* (the arrival of the request, the return of an outbound HTTP call) or    *)
(* one access to the shared dictionary global_context.                     *)
(*                                                                         *)
(* Texts are sequences of character tokens; messages and prompts are       *)
(* sequences of tokens too, a fixed piece of a template being one token.   *)
(***************************************************************************)
EXTENDS Integers, Sequences, FiniteSets, TLC

VARIABLES proc, chat, global_context, lastOk, norm

vars == <<proc, chat, global_context, lastOk, norm>>

(* ---------------------------- bounds ----------------------------------- *)

\* number of /process requests and of /chatbot requests in one behaviour
MaxProc == 2
MaxChat == 1

\* length of the texts the normalizer is tried on
MaxTextLen == 3

ProcIds == 1..MaxProc
ChatIds == 1..MaxChat

(* ------------------------- values and inputs --------------------------- *)

\* Python's None, as a value no text equals
NoneVal == <<"<None>">>

\* a JSON object without keys
EmptyObj == [k \in {} |-> 0]

\* texts the OCR endpoint may put in textAnnotations[0].description:
\* KA and MA stand for Devanagari letters, DANDA for the Devanagari full stop
OcrTexts == << <<" ">>, <<"KA">>, <<" ", "MA", "DANDA", " ">> >>

\* texts the generative endpoint may put in candidates[0].content.parts[0].text
GenTexts == << <<" ">>, <<" ", "y", " ">> >>

\* what requests.post(...) / response.json() of the OCR call may do: raise
\* (network failure, body that is no JSON), or give a JSON object
VisionResponses ==
  << [raised |-> TRUE, msg |-> <<"connection refused">>],
     [raised |-> FALSE, result |-> [error |-> [message |-> <<"quota">>]]],
     [raised |-> FALSE, result |-> EmptyObj],
     [raised |-> FALSE, result |-> [responses |-> <<>>]],
     [raised |-> FALSE, result |-> [responses |-> <<EmptyObj>>]],
     [raised |-> FALSE, result |-> [responses |-> <<[textAnnotations |-> <<>>]>>]] >>
  \o [i \in 1..Len(OcrTexts) |->
        [raised |-> FALSE,
         result |-> [responses |-> <<[textAnnotations |->
                        <<[description |-> OcrTexts[i]]>>]>>]]]

\* the same for a generateContent call
GeminiResponses ==
  << [raised |-> TRUE, msg |-> <<"connection refused">>],
     [raised |-> FALSE, result |-> [error |-> [message |-> <<"overloaded">>]]],
     [raised |-> FALSE, result |-> EmptyObj],
     [raised |-> FALSE, result |-> [candidates |-> <<>>]],
     [raised |-> FALSE, result |-> [candidates |-> <<EmptyObj>>]],
     [raised |-> FALSE, result |-> [candidates |-> <<[content |-> EmptyObj]>>]],
     [raised |-> FALSE, result |-> [candidates |-> <<[content |-> [parts |-> <<>>]]>>]] >>
  \o [i \in 1..Len(GenTexts) |->
        [raised |-> FALSE,
         result |-> [candidates |-> <<[content |-> [parts |->
                        <<[text |-> GenTexts[i]]>>]]>>]]]

\* request.files of a /process request: no `file` part, a part with an empty
\* filename, a named part
Uploads == {"nofile", "noname", "named"}

\* what request.get_json() of a /chatbot request may do: raise (a body that
\* is no JSON, werkzeug's BadRequest), give None, or give an object
JsonBodies ==
  << [raised |-> TRUE, msg |-> <<"400 Bad Request">>],
     [raised |-> FALSE, isNone |-> TRUE],
     [raised |-> FALSE, isNone |-> FALSE, data |-> EmptyObj],
     [raised |-> FALSE, isNone |-> FALSE, data |-> [user |-> <<"u">>]],
     [raised |-> FALSE, isNone |-> FALSE, data |-> [message |-> <<"q">>]] >>

(* ----------------------------- helpers --------------------------------- *)

\* `k in obj`
Has(obj, k) == k \in DOMAIN obj

\* truth value of obj.get(k): the key is there and its value is a non-empty
\* list or object
Truthy(obj, k) == Has(obj, k) /\ DOMAIN obj[k] # {}

\* str.strip(): leading and trailing blanks removed
RECURSIVE lstrip(_)
lstrip(s) == IF s # <<>> /\ Head(s) = " " THEN lstrip(Tail(s)) ELSE s

RECURSIVE rstrip(_)
rstrip(s) ==
  IF s # <<>> /\ s[Len(s)] = " " THEN rstrip(SubSeq(s, 1, Len(s) - 1)) ELSE s

strip(s) == rstrip(lstrip(s))

\* `sub in s` for strings
Contains(s, sub) ==
  \E i \in 0..(Len(s) - Len(sub)) : SubSeq(s, i + 1, i + Len(sub)) = sub

\* the outcome of a call that returns a value
Returns(v) == [raised |-> FALSE, value |-> v]

\* the outcome of a call that raises an exception e, msg being str(e)
Raises(m) == [raised |-> TRUE, msg |-> m]

(* ------------------------ the pipeline stages -------------------------- *)

\* extract_text_from_image, from the outcome of its HTTP call on: every
\* exception is caught and turned into None
extract_text_from_image(resp) ==
  IF resp.raised THEN NoneVal
  ELSE IF Has(resp.result, "error") THEN NoneVal
  ELSE IF /\ Truthy(resp.result, "responses")
          /\ Truthy(resp.result.responses[1], "textAnnotations")
          /\ Len(resp.result.responses[1].textAnnotations) > 0
       THEN strip(resp.result.responses[1].textAnnotations[1].description)
       ELSE strip(<<>>)

\* the exception extract_text_from_image catches, if any: what the OCR call
\* failed with
VisionFailure(resp) ==
  IF resp.raised THEN resp.msg
  ELSE IF Has(resp.result, "error")
       THEN <<"Vision API error: ">> \o resp.result.error.message
       ELSE NoneVal

\* the Devanagari characters of the model: two consonants, the vowel sign AA,
\* the virama, the full stop and the digit one
Consonants == {"KA", "MA"}
VowelMarks == {"AA_SIGN"}
Viramas == {"VIRAMA"}

\* the IAST of one character that is neither a vowel sign nor a virama; a
\* character the Devanagari scheme does not know is passed through
IastOf(c) ==
  CASE c = "KA" -> <<"k">>
    [] c = "MA" -> <<"m">>
    [] c = "DANDA" -> <<"|">>
    [] c = "D1" -> <<"1">>
    [] OTHER -> <<c>>

\* the scan of transliterate(text, DEVANAGARI, IAST): a consonant carries an
\* implicit "a", written when the next character is no vowel sign and no virama
RECURSIVE brahmic(_, _)
brahmic(s, hadConsonant) ==
  IF s = <<>> THEN (IF hadConsonant THEN <<"a">> ELSE <<>>)
  ELSE IF Head(s) \in VowelMarks THEN <<"aa">> \o brahmic(Tail(s), FALSE)
  ELSE IF Head(s) \in Viramas THEN brahmic(Tail(s), FALSE)
  ELSE (IF hadConsonant THEN <<"a">> ELSE <<>>) \o IastOf(Head(s))
         \o brahmic(Tail(s), Head(s) \in Consonants)

transliterate(s) == brahmic(s, FALSE)

\* c.isalpha(): Latin and Devanagari letters are alphabetic ("aa" is the one
\* letter a-macron); vowel signs, the virama, punctuation and digits are not
isalpha(c) == c \in {"k", "m", "a", "aa", "x", "y", "q", "u", "KA", "MA"}

\* a normalizer without the filter
transliterate_sanskrit_Unfiltered(sanskrit_text) == transliterate(sanskrit_text)

\* transliterate_sanskrit: transliteration, then the filter that keeps letters,
\* blanks and hyphens
transliterate_sanskrit(sanskrit_text) ==
  SelectSeq(transliterate(sanskrit_text), LAMBDA c : isalpha(c) \/ c \in {" ", "-"})

\* the prompt of translate_to_english, its defaults "sa" and "en" filled in
TranslatePrompt(text) ==
  <<"Translate the following sa text to en:\n", "Text: ">> \o text
    \o <<"\n", "Provide only the translated text in en.">>

\* the prompt of interpret_text
InterpretPrompt(english_text) ==
  <<"The following is a translated excerpt from an ancient Sanskrit manuscript:\n",
    "Text: ">> \o english_text
    \o <<"\n\n", "Provide a concise summary (2-3 sentences) ...">>

\* the shape test shared by the three generateContent callers
HasCandidateText(result) ==
  /\ Truthy(result, "candidates")
  /\ Len(result.candidates) > 0
  /\ Truthy(result.candidates[1], "content")
  /\ Truthy(result.candidates[1].content, "parts")
  /\ Len(result.candidates[1].content.parts) > 0

CandidateText(result) == result.candidates[1].content.parts[1].text

GeminiApiError(result) == <<"Gemini API error: ">> \o result.error.message

\* the exception a generateContent caller sees inside its try block, if any:
\* what the call failed with
GeminiFailure(resp) ==
  IF resp.raised THEN resp.msg
  ELSE IF Has(resp.result, "error") THEN GeminiApiError(resp.result)
  ELSE NoneVal

\* translate_to_english, from the outcome of its HTTP call on: exceptions are
\* logged and raised again
translate_to_english(resp) ==
  IF resp.raised THEN Raises(resp.msg)
  ELSE IF Has(resp.result, "error") THEN Raises(GeminiApiError(resp.result))
  ELSE IF HasCandidateText(resp.result)
       THEN Returns(strip(CandidateText(resp.result)))
       ELSE Returns(strip(<<>>))

InterpretationFailed == <<"Interpretation failed.">>

\* an interpreter that treats a missing candidate text as an error
interpret_text_RaisesOnShape(resp) ==
  IF resp.raised THEN Raises(resp.msg)
  ELSE IF Has(resp.result, "error") THEN Raises(GeminiApiError(resp.result))
  ELSE IF HasCandidateText(resp.result)
       THEN Returns(strip(CandidateText(resp.result)))
       ELSE Raises(InterpretationFailed)

\* interpret_text, from the outcome of its HTTP call on
interpret_text(resp) ==
  IF resp.raised THEN Raises(resp.msg)
  ELSE IF Has(resp.result, "error") THEN Raises(GeminiApiError(resp.result))
  ELSE IF HasCandidateText(resp.result)
       THEN Returns(strip(CandidateText(resp.result)))
       ELSE Returns(strip(InterpretationFailed))

\* the prompt of query_gemini_api from the three fields it read
ChatPrompt(s, e, i, user_query) ==
  <<"The following is an excerpt from an ancient Sanskrit manuscript:\n",
    "Sanskrit Text: ">> \o s
    \o <<"\n", "English Translation: ">> \o e
    \o <<"\n", "Interpretation: ">> \o i
    \o <<"\n\n", "User Query: ">> \o user_query

NoResponse == <<"Sorry, I couldn't generate a response.">>

\* a chat call that raises its exceptions again, as the pipeline stages do
query_gemini_api_Reraises(resp) ==
  IF resp.raised THEN Raises(resp.msg)
  ELSE IF Has(resp.result, "error") THEN Raises(GeminiApiError(resp.result))
  ELSE IF HasCandidateText(resp.result)
       THEN Returns(CandidateText(resp.result))
       ELSE Returns(NoResponse)

\* query_gemini_api, from the outcome of its HTTP call on: every exception is
\* caught and turned into the text "Error: ..."
query_gemini_api(resp) ==
  IF resp.raised THEN Returns(<<"Error: ">> \o resp.msg)
  ELSE IF Has(resp.result, "error")
       THEN Returns(<<"Error: ">> \o GeminiApiError(resp.result))
  ELSE IF HasCandidateText(resp.result)
       THEN Returns(CandidateText(resp.result))
       ELSE Returns(NoResponse)

\* how a response of an endpoint is classified by the code reading it
Kind(resp) ==
  IF resp.raised THEN "raise"
  ELSE IF Has(resp.result, "error") THEN "error"
  ELSE IF HasCandidateText(resp.result) THEN "text"
  ELSE "noshape"

VisionKind(resp) ==
  IF resp.raised THEN "raise"
  ELSE IF Has(resp.result, "error") THEN "error"
  ELSE IF /\ Truthy(resp.result, "responses")
          /\ Truthy(resp.result.responses[1], "textAnnotations")
       THEN "text"
       ELSE "noshape"

(* ------------------------------ state ---------------------------------- *)

\* a /process request: where its handler is, its local variables, the
\* outbound calls it has issued, and its HTTP response
IdleProc ==
  [pc |-> "idle", upload |-> "none",
   sanskrit_text |-> <<>>, transliterated_text |-> <<>>,
   english_text |-> <<>>, interpretation |-> <<>>,
   ocrCalls |-> 0, translateCalls |-> 0, interpretCalls |-> 0,
   translatePrompt |-> <<>>, interpretPrompt |-> <<>>,
   ocrKind |-> "none", interpretKind |-> "none",
   failedAt |-> "none", failure |-> <<>>,
   status |-> 0, body |-> EmptyObj]

\* a /chatbot request
IdleChat ==
  [pc |-> "idle", hasMessage |-> FALSE, user_query |-> <<>>,
   s |-> <<>>, e |-> <<>>, i |-> <<>>, prompt |-> <<>>,
   geminiCalls |-> 0, geminiKind |-> "none", failure |-> <<>>,
   after |-> 0, okAtBuild |-> 0, untouched |-> FALSE,
   status |-> 0, body |-> EmptyObj]

\* a context that starts with placeholder texts
InitialContext_Placeholder ==
  [sanskrit_text |-> <<"-">>, english_text |-> <<"-">>, interpretation |-> <<"-">>]

\* the dictionary global_context as the module creates it
InitialContext ==
  [sanskrit_text |-> <<>>, english_text |-> <<>>, interpretation |-> <<>>]

\* one application of transliterate_sanskrit to a text and one to its result
IdleNorm == [pc |-> "idle", text |-> <<>>, once |-> <<>>, twice |-> <<>>]

Init ==
  /\ proc = [p \in ProcIds |-> IdleProc]
  /\ chat = [c \in ChatIds |-> IdleChat]
  /\ global_context = InitialContext
  /\ lastOk = 0
  /\ norm = IdleNorm

\* the local variables of the two handlers: they are gone when the handler
\* returns
ProcLocals ==
  {"sanskrit_text", "transliterated_text", "english_text", "interpretation",
   "translatePrompt", "interpretPrompt"}

ChatLocals == {"user_query", "s", "e", "i", "prompt", "after", "okAtBuild"}

\* a handler returns: its HTTP response is (status, body)
Return(r, idle, locals, status, body) ==
  [f \in DOMAIN r |->
     CASE f = "pc" -> "done"
       [] f = "status" -> status
       [] f = "body" -> body
       [] f \in locals -> idle[f]
       [] OTHER -> r[f]]

\* return jsonify({'error': msg}), status
ProcErrorResponse(r, status, msg) ==
  Return(r, IdleProc, ProcLocals, status, [error |-> msg])

ChatErrorResponse(r, status, msg) ==
  Return(r, IdleChat, ChatLocals, status, [error |-> msg])

(* ------------------------------ /process ------------------------------- *)

\* a check that forgets the empty filename
UploadRejected_FileOnly(upload) == upload = "nofile"

\* the two early returns of process_image: `'file' not in request.files` and
\* `file.filename == ''`
UploadRejected(upload) == upload \in {"nofile", "noname"}

UploadError(upload) ==
  IF upload = "nofile" THEN <<"No file uploaded">> ELSE <<"No file selected">>

\* a check that forgets the empty text
ExtractionFailed_NoneOnly(sanskrit_text) == sanskrit_text = NoneVal

\* `sanskrit_text is None or sanskrit_text == ""`
ExtractionFailed(sanskrit_text) == sanskrit_text = NoneVal \/ sanskrit_text = <<>>

\* a pipeline that feeds the romanized text to the translator
TranslatorInput_Normalized(sanskrit_text, transliterated_text) == transliterated_text

\* the argument of the call translate_to_english(sanskrit_text): the extracted
\* text, transliterated_text being left unused
TranslatorInput(sanskrit_text, transliterated_text) == sanskrit_text

\* a pipeline that goes on with an empty translation
TranslationFailed_Never(english_text) == FALSE

\* `not english_text`
TranslationFailed(english_text) == english_text = <<>>

\* an error response that leaks the text extracted so far
ProcessFails_Partial(r, stage, cause, msg) ==
  Return([r EXCEPT !.failedAt = stage, !.failure = cause], IdleProc, ProcLocals,
         500, [error |-> msg, sanskrit_text |-> r.sanskrit_text])

\* a handler that tries the OCR call a second time before it gives up
ProcessFails_Retry(r, stage, cause, msg) ==
  IF stage = "ocr" /\ r.ocrCalls < 2
  THEN [r EXCEPT !.ocrCalls = @ + 1, !.ocrKind = "none"]
  ELSE ProcErrorResponse([r EXCEPT !.failedAt = stage, !.failure = cause], 500, msg)

\* the `except Exception as e` of process_image: 500 with str(e)
ProcessFails(r, stage, cause, msg) ==
  ProcErrorResponse([r EXCEPT !.failedAt = stage, !.failure = cause], 500, msg)

\* jsonify of the three results, status 200
ProcessResponse(r) ==
  Return(r, IdleProc, ProcLocals, 200,
         [sanskrit_text |-> r.sanskrit_text,
          english_text |-> r.english_text,
          interpretation |-> r.interpretation])

\* requests are numbered in the order they arrive
ArrivesNext(reqs, n) ==
  reqs[n].pc = "idle" /\ (IF n = 1 THEN TRUE ELSE reqs[n - 1].pc # "idle")

\* a /process request arrives: the checks of request.files, then file.read()
\* and the OCR call of extract_text_from_image
ProcessReceive(p, upload) ==
  /\ ArrivesNext(proc, p)
  /\ proc' = [proc EXCEPT ![p] =
       IF UploadRejected(upload)
       THEN ProcErrorResponse([@ EXCEPT !.upload = upload], 400, UploadError(upload))
       ELSE [@ EXCEPT !.upload = upload, !.pc = "ocr", !.ocrCalls = @ + 1]]
  /\ UNCHANGED <<chat, global_context, lastOk, norm>>

\* the OCR call returns: the rest of extract_text_from_image, the check of
\* its result, transliterate_sanskrit, and the HTTP call of translate_to_english
OcrReturn(p, i, normalizerRaises) ==
  /\ proc[p].pc = "ocr"
  /\ LET resp == VisionResponses[i]
         text == extract_text_from_image(resp)
         r == [proc[p] EXCEPT !.ocrKind = VisionKind(resp)]
     IN proc' = [proc EXCEPT ![p] =
          IF ExtractionFailed(text)
          THEN ProcessFails(r, "ocr",
                 IF text = NoneVal THEN VisionFailure(resp)
                                   ELSE <<"Text extraction failed">>,
                 <<"Text extraction failed">>)
          ELSE IF normalizerRaises
          THEN ProcessFails([r EXCEPT !.sanskrit_text = text], "normalize",
                 <<"transliteration error">>, <<"transliteration error">>)
          ELSE [r EXCEPT !.sanskrit_text = text,
                         !.transliterated_text = transliterate_sanskrit(text),
                         !.translatePrompt =
                           TranslatePrompt(
                             TranslatorInput(text, transliterate_sanskrit(text))),
                         !.translateCalls = @ + 1,
                         !.pc = "translate"]]
  /\ UNCHANGED <<chat, global_context, lastOk, norm>>

\* a handler that stores each result as soon as it has it
TranslateReturn_StoresEarly(p, i) ==
  /\ proc[p].pc = "translate"
  /\ LET resp == GeminiResponses[i]
         out == translate_to_english(resp)
     IN /\ proc' = [proc EXCEPT ![p] =
             IF out.raised
             THEN ProcessFails(@, "translate", GeminiFailure(resp), out.msg)
             ELSE IF TranslationFailed(out.value)
             THEN ProcessFails(@, "translate",
                    <<"Translation failed">>, <<"Translation failed">>)
             ELSE [@ EXCEPT !.english_text = out.value,
                            !.interpretPrompt = InterpretPrompt(out.value),
                            !.interpretCalls = @ + 1,
                            !.pc = "interpret"]]
        /\ global_context' =
             IF out.raised THEN global_context
             ELSE [global_context EXCEPT !.sanskrit_text = proc[p].sanskrit_text,
                                         !.english_text = out.value]
  /\ UNCHANGED <<chat, lastOk, norm>>

\* the translation call returns: the rest of translate_to_english, the check
\* of its result, and the HTTP call of interpret_text
TranslateReturn(p, i) ==
  /\ proc[p].pc = "translate"
  /\ LET resp == GeminiResponses[i]
         out == translate_to_english(resp)
     IN proc' = [proc EXCEPT ![p] =
          IF out.raised
          THEN ProcessFails(@, "translate", GeminiFailure(resp), out.msg)
          ELSE IF TranslationFailed(out.value)
          THEN ProcessFails(@, "translate",
                 <<"Translation failed">>, <<"Translation failed">>)
          ELSE [@ EXCEPT !.english_text = out.value,
                         !.interpretPrompt = InterpretPrompt(out.value),
                         !.interpretCalls = @ + 1,
                         !.pc = "interpret"]]
  /\ UNCHANGED <<chat, global_context, lastOk, norm>>

\* the interpretation call returns: the rest of interpret_text
InterpretReturn(p, i) ==
  /\ proc[p].pc = "interpret"
  /\ LET resp == GeminiResponses[i]
         out == interpret_text(resp)
         r == [proc[p] EXCEPT !.interpretKind = Kind(resp)]
     IN proc' = [proc EXCEPT ![p] =
          IF out.raised
          THEN ProcessFails(r, "interpret", GeminiFailure(resp), out.msg)
          ELSE [r EXCEPT !.interpretation = out.value, !.pc = "store_sanskrit"]]
  /\ UNCHANGED <<chat, global_context, lastOk, norm>>

\* global_context['sanskrit_text'] = sanskrit_text
StoreSanskrit(p) ==
  /\ proc[p].pc = "store_sanskrit"
  /\ global_context' =
       [global_context EXCEPT !.sanskrit_text = proc[p].sanskrit_text]
  /\ proc' = [proc EXCEPT ![p].pc = "store_english"]
  /\ UNCHANGED <<chat, lastOk, norm>>

\* global_context['english_text'] = english_text
StoreEnglish(p) ==
  /\ proc[p].pc = "store_english"
  /\ global_context' =
       [global_context EXCEPT !.english_text = proc[p].english_text]
  /\ proc' = [proc EXCEPT ![p].pc = "store_interpretation"]
  /\ UNCHANGED <<chat, lastOk, norm>>

\* global_context['interpretation'] = interpretation, and the 200 response
StoreInterpretation(p) ==
  /\ proc[p].pc = "store_interpretation"
  /\ global_context' =
       [global_context EXCEPT !.interpretation = proc[p].interpretation]
  /\ proc' = [proc EXCEPT ![p] = ProcessResponse(@)]
  /\ lastOk' = p
  /\ UNCHANGED <<chat, norm>>

(* ------------------------------ /chatbot ------------------------------- *)

\* `not data or 'message' not in data`
MessageMissing(body) ==
  body.isNone \/ DOMAIN body.data = {} \/ ~Has(body.data, "message")

\* some /process request has executed its first store into global_context
StoreBegun ==
  \E p \in ProcIds :
    proc[p].pc \in {"store_english", "store_interpretation"} \/ proc[p].status = 200

\* a /chatbot request arrives: request.get_json() and the check of its result
ChatReceive(c, i) ==
  /\ ArrivesNext(chat, c)
  /\ LET body == JsonBodies[i]
     IN chat' = [chat EXCEPT ![c] =
          IF body.raised
          THEN ChatErrorResponse([@ EXCEPT !.failure = body.msg], 500, body.msg)
          ELSE IF MessageMissing(body)
          THEN ChatErrorResponse(@, 400, <<"No message provided">>)
          ELSE [@ EXCEPT !.hasMessage = TRUE, !.user_query = body.data.message,
                         !.after = lastOk, !.pc = "read_sanskrit"]]
  /\ UNCHANGED <<proc, global_context, lastOk, norm>>

\* query_gemini_api reads global_context['sanskrit_text']
ChatReadSanskrit(c) ==
  /\ chat[c].pc = "read_sanskrit"
  /\ chat' = [chat EXCEPT ![c].s = global_context.sanskrit_text,
                          ![c].pc = "read_english"]
  /\ UNCHANGED <<proc, global_context, lastOk, norm>>

\* query_gemini_api reads global_context['english_text']
ChatReadEnglish(c) ==
  /\ chat[c].pc = "read_english"
  /\ chat' = [chat EXCEPT ![c].e = global_context.english_text,
                          ![c].pc = "read_interpretation"]
  /\ UNCHANGED <<proc, global_context, lastOk, norm>>

\* query_gemini_api reads global_context['interpretation'], builds the prompt
\* and issues the generateContent call
ChatReadInterpretation(c) ==
  /\ chat[c].pc = "read_interpretation"
  /\ chat' = [chat EXCEPT ![c] =
       [@ EXCEPT !.i = global_context.interpretation,
                 !.prompt = ChatPrompt(chat[c].s, chat[c].e,
                                       global_context.interpretation,
                                       chat[c].user_query),
                 !.geminiCalls = @ + 1,
                 !.okAtBuild = lastOk,
                 !.untouched = ~StoreBegun,
                 !.pc = "gemini"]]
  /\ UNCHANGED <<proc, global_context, lastOk, norm>>

\* the generateContent call returns: the rest of query_gemini_api and of chatbot
ChatReturn(c, i) ==
  /\ chat[c].pc = "gemini"
  /\ LET resp == GeminiResponses[i]
         out == query_gemini_api(resp)
         r == [chat[c] EXCEPT !.geminiKind = Kind(resp),
                                !.failure = GeminiFailure(resp)]
     IN chat' = [chat EXCEPT ![c] =
          IF out.raised
          THEN ChatErrorResponse(r, 500, out.msg)
          ELSE Return(r, IdleChat, ChatLocals, 200, [response |-> out.value])]
  /\ UNCHANGED <<proc, global_context, lastOk, norm>>

(* --------------------------- specification ----------------------------- *)

Next ==
  \/ \E p \in ProcIds, upload \in Uploads : ProcessReceive(p, upload)
  \/ \E p \in ProcIds, i \in DOMAIN VisionResponses, n \in BOOLEAN : OcrReturn(p, i, n)
  \/ \E p \in ProcIds, i \in DOMAIN GeminiResponses : TranslateReturn(p, i)
  \/ \E p \in ProcIds, i \in DOMAIN GeminiResponses : InterpretReturn(p, i)
  \/ \E p \in ProcIds : StoreSanskrit(p)
  \/ \E p \in ProcIds : StoreEnglish(p)
  \/ \E p \in ProcIds : StoreInterpretation(p)
  \/ \E c \in ChatIds, i \in DOMAIN JsonBodies : ChatReceive(c, i)
  \/ \E c \in ChatIds : ChatReadSanskrit(c)
  \/ \E c \in ChatIds : ChatReadEnglish(c)
  \/ \E c \in ChatIds : ChatReadInterpretation(c)
  \/ \E c \in ChatIds, i \in DOMAIN GeminiResponses : ChatReturn(c, i)

Spec == Init /\ [][Next]_vars

\* every outbound call returns or fails, and every thread that can run a
\* step of its handler runs it; nothing makes a request arrive
FairSpec ==
  /\ Spec
  /\ \A p \in ProcIds :
       /\ WF_vars(\E i \in DOMAIN VisionResponses, n \in BOOLEAN : OcrReturn(p, i, n))
       /\ WF_vars(\E i \in DOMAIN GeminiResponses : TranslateReturn(p, i))
       /\ WF_vars(\E i \in DOMAIN GeminiResponses : InterpretReturn(p, i))
       /\ WF_vars(StoreSanskrit(p))
       /\ WF_vars(StoreEnglish(p))
       /\ WF_vars(StoreInterpretation(p))
  /\ \A c \in ChatIds :
       /\ WF_vars(ChatReadSanskrit(c))
       /\ WF_vars(ChatReadEnglish(c))
       /\ WF_vars(ChatReadInterpretation(c))
       /\ WF_vars(\E i \in DOMAIN GeminiResponses : ChatReturn(c, i))

(* ---------------------------- the normalizer --------------------------- *)

\* the characters of the texts the normalizer is tried on: Devanagari
\* consonants, vowel sign, virama, full stop and digit, a blank, a hyphen and
\* a Latin letter
OcrAlphabet == {"KA", "MA", "AA_SIGN", "VIRAMA", "DANDA", "D1", " ", "-", "x"}

TextsUpTo(n) == UNION {[1..k -> OcrAlphabet] : k \in 0..n}

InitNormalizer ==
  /\ proc = [p \in ProcIds |-> IdleProc]
  /\ chat = [c \in ChatIds |-> IdleChat]
  /\ global_context = InitialContext
  /\ lastOk = 0
  /\ norm \in {[IdleNorm EXCEPT !.pc = "text", !.text = t] : t \in TextsUpTo(MaxTextLen)}

\* transliterate_sanskrit(text)
NormalizeOnce ==
  /\ norm.pc = "text"
  /\ norm' = [norm EXCEPT !.once = transliterate_sanskrit(norm.text), !.pc = "once"]
  /\ UNCHANGED <<proc, chat, global_context, lastOk>>

\* transliterate_sanskrit of the result
NormalizeTwice ==
  /\ norm.pc = "once"
  /\ norm' = [norm EXCEPT !.twice = transliterate_sanskrit(norm.once), !.pc = "twice"]
  /\ UNCHANGED <<proc, chat, global_context, lastOk>>

NextNormalizer == NormalizeOnce \/ NormalizeTwice

SpecNormalizer == InitNormalizer /\ [][NextNormalizer]_vars

(* ------------------------------- claims -------------------------------- *)

ResultFields == {"sanskrit_text", "english_text", "interpretation"}

Succeeded(p) == proc[p].pc = "done" /\ proc[p].status = 200

\* C1: once a /process request has answered 200 with (S, E, I), the prompt of
\* a /chatbot request that arrives afterwards contains S, E, I and the
\* question, provided no other /process request has answered 200 between
\* that answer and the building of the prompt.
C1_PromptHasStoredTriple ==
  \A c \in ChatIds :
    (chat[c].pc = "gemini" /\ chat[c].after # 0 /\ chat[c].okAtBuild = chat[c].after)
      => LET stored == proc[chat[c].after].body
         IN /\ Contains(chat[c].prompt, stored.sanskrit_text)
            /\ Contains(chat[c].prompt, stored.english_text)
            /\ Contains(chat[c].prompt, stored.interpretation)
            /\ Contains(chat[c].prompt, chat[c].user_query)

\* C2: an OCR response without text annotations ends the request with 500
\* "Text extraction failed", and no translation or interpretation call is
\* issued for it.
C2_NoAnnotationsFails ==
  \A p \in ProcIds :
    proc[p].ocrKind = "noshape"
      => /\ proc[p].pc = "done"
         /\ proc[p].status = 500
         /\ proc[p].body = [error |-> <<"Text extraction failed">>]
         /\ proc[p].translateCalls = 0
         /\ proc[p].interpretCalls = 0

C2_Witness ==
  \E p \in ProcIds : proc[p].ocrKind = "noshape" /\ proc[p].status = 500

\* C3 as stated: a 500 response of /process has the single field `error`,
\* which is the message of the failure that ended the request.
C3_ErrorIsFailureMessage ==
  \A p \in ProcIds :
    proc[p].status = 500
      => /\ DOMAIN proc[p].body = {"error"}
         /\ proc[p].body.error = proc[p].failure

\* C3 as amended: a 500 response of /process has the single field `error`;
\* it is the message of the failure for a normalization, translation or
\* interpretation failure, and the fixed text "Text extraction failed" for
\* every failure of the OCR stage.
C3_ErrorOnlyResponse ==
  \A p \in ProcIds :
    /\ proc[p].failedAt # "none" => proc[p].status = 500
    /\ proc[p].status = 500
         => /\ DOMAIN proc[p].body = {"error"}
            /\ proc[p].body.error =
                 IF proc[p].failedAt = "ocr" THEN <<"Text extraction failed">>
                                             ELSE proc[p].failure

C3_Witness ==
  \E p, q \in ProcIds :
    /\ proc[p].status = 500 /\ proc[p].failedAt = "ocr"
    /\ proc[p].ocrKind = "error" /\ proc[p].failure # proc[p].body.error
    /\ proc[q].status = 500 /\ proc[q].failedAt = "interpret"
    /\ proc[q].body.error = <<"Gemini API error: ", "overloaded">>

\* C4: a /process request without a file part or with an empty filename is
\* answered 400 with an `error` field, and issues no outbound call.
C4_BadUploadRejected ==
  \A p \in ProcIds :
    proc[p].upload \in {"nofile", "noname"}
      => /\ proc[p].pc = "done"
         /\ proc[p].status = 400
         /\ Has(proc[p].body, "error")
         /\ proc[p].ocrCalls + proc[p].translateCalls + proc[p].interpretCalls = 0

C4_Witness ==
  \E p, q \in ProcIds :
    /\ proc[p].upload = "nofile" /\ proc[p].status = 400
    /\ proc[q].upload = "noname" /\ proc[q].status = 400

\* C5: a /chatbot request whose body carries no `message` (an empty or
\* absent JSON body included) is answered 400 with an `error` field, and no
\* generative call is issued for it.
C5_NoMessageRejected ==
  \A c \in ChatIds :
    (chat[c].pc = "done" /\ ~chat[c].hasMessage)
      => /\ chat[c].status = 400
         /\ Has(chat[c].body, "error")
         /\ chat[c].geminiCalls = 0

\* C6: a /chatbot request that carries a `message` is never answered 500: a
\* failed generative call gives 200 with "Error: " followed by the failure's
\* message, a response without candidate text gives 200 with the fixed
\* apology.
C6_ChatDegrades ==
  \A c \in ChatIds :
    chat[c].hasMessage
      => /\ chat[c].status # 500
         /\ chat[c].pc = "done"
              => /\ chat[c].status = 200
                 /\ DOMAIN chat[c].body = {"response"}
                 /\ chat[c].geminiKind \in {"raise", "error"}
                      => /\ Head(chat[c].body.response) = "Error: "
                         /\ Tail(chat[c].body.response) = chat[c].failure
                 /\ chat[c].geminiKind = "noshape"
                      => chat[c].body.response
                           = <<"Sorry, I couldn't generate a response.">>

C6_Witness ==
  \E c \in ChatIds :
    /\ chat[c].hasMessage /\ chat[c].geminiKind = "raise"
    /\ chat[c].status = 200
    /\ chat[c].body.response = <<"Error: ", "connection refused">>

\* C7: an interpretation response without candidate text makes the request
\* go on with "Interpretation failed." as its interpretation: it is answered
\* 200 with that text, which is stored in the context; a request fails at the
\* interpretation stage exactly when the call raised or reported an error.
C7_FallbackIsAValue ==
  \A p \in ProcIds :
    /\ proc[p].interpretKind = "noshape"
         => /\ proc[p].status \in {0, 200}
            /\ proc[p].pc # "done" => proc[p].interpretation = <<"Interpretation failed.">>
            /\ proc[p].pc = "done"
                 => proc[p].body.interpretation = <<"Interpretation failed.">>
            /\ lastOk = p
                 => global_context.interpretation = <<"Interpretation failed.">>
    /\ proc[p].failedAt = "interpret" <=> proc[p].interpretKind \in {"raise", "error"}

C7_Witness ==
  \E p \in ProcIds :
    /\ proc[p].interpretKind = "noshape" /\ proc[p].status = 200
    /\ proc[p].body.interpretation = <<"Interpretation failed.">>
    /\ global_context.interpretation = <<"Interpretation failed.">>

\* C8: a 200 response of /process has the three result fields, none empty.
C8_ResultsNonEmpty ==
  \A p \in ProcIds :
    proc[p].status = 200
      => /\ DOMAIN proc[p].body = ResultFields
         /\ \A f \in ResultFields : proc[p].body[f] # <<>>

\* C9: when every /process request has answered 200, the context is the
\* triple of one of them, whole.
C9_ContextIsOneTriple ==
  (\A p \in ProcIds : Succeeded(p))
    => \E p \in ProcIds : global_context = proc[p].body

\* C10: the context starts with three empty texts, and a /chatbot request
\* whose prompt is built before any /process request has stored anything
\* sends a prompt with the three fields empty and is answered 200.
C10_EmptyContextChat ==
  /\ ~StoreBegun
       => global_context
            = [sanskrit_text |-> <<>>, english_text |-> <<>>, interpretation |-> <<>>]
  /\ \A c \in ChatIds :
       chat[c].untouched
         => /\ chat[c].geminiCalls = 1
            /\ chat[c].pc = "gemini"
                 => chat[c].prompt =
                      <<"The following is an excerpt from an ancient Sanskrit manuscript:\n",
                        "Sanskrit Text: ", "\n", "English Translation: ",
                        "\n", "Interpretation: ", "\n\n", "User Query: ">>
                        \o chat[c].user_query
            /\ chat[c].pc = "done" => chat[c].status = 200

C10_Witness ==
  \E c \in ChatIds :
    /\ chat[c].untouched /\ chat[c].status = 200
    /\ \E p \in ProcIds : proc[p].pc = "interpret"

\* the texts the Extractor can return to process_image, and their romanized
\* forms
ExtractedTexts == {strip(OcrTexts[i]) : i \in DOMAIN OcrTexts} \ {<<>>}

NormalizedTexts == {transliterate_sanskrit(t) : t \in ExtractedTexts}

\* C11: the translation call of a /process request carries the text the
\* Extractor returned, not its romanized form, and no field of a 200 response
\* or of the context is a romanized text.
C11_TranslatorGetsExtractedText ==
  /\ \A p \in ProcIds :
       /\ proc[p].pc = "translate"
            => /\ proc[p].sanskrit_text \in ExtractedTexts
               /\ proc[p].transliterated_text
                    = transliterate_sanskrit(proc[p].sanskrit_text)
               /\ proc[p].translatePrompt =
                    <<"Translate the following sa text to en:\n", "Text: ">>
                      \o proc[p].sanskrit_text
                      \o <<"\n", "Provide only the translated text in en.">>
       /\ proc[p].status = 200
            => /\ proc[p].body.sanskrit_text \in ExtractedTexts
               /\ \A f \in ResultFields : proc[p].body[f] \notin NormalizedTexts
  /\ \A f \in ResultFields : global_context[f] \notin NormalizedTexts

C11_Witness ==
  \E p, q \in ProcIds :
    /\ proc[p].pc = "translate"
    /\ proc[p].transliterated_text = <<"m", "a">>
    /\ proc[p].sanskrit_text = <<"MA", "DANDA">>
    /\ proc[q].status = 200
    /\ global_context.sanskrit_text = proc[q].body.sanskrit_text

\* the letters of the model's characters
Letters == {"k", "m", "a", "aa", "x", "KA", "MA"}

\* C12: the normalizer's result has only letters, blanks and hyphens, and
\* normalizing it again gives the same text.
C12_NormalizerIdempotent ==
  /\ norm.pc \in {"once", "twice"}
       => \A i \in DOMAIN norm.once : norm.once[i] \in Letters \cup {" ", "-"}
  /\ norm.pc = "twice" => norm.twice = norm.once

C12_Witness ==
  /\ norm.pc = "twice"
  /\ norm.text = <<"MA", "AA_SIGN", "DANDA">>
  /\ norm.once = <<"m", "aa">>
  /\ norm.twice = <<"m", "aa">>

StorePcs == {"store_sanskrit", "store_english", "store_interpretation"}

\* the steps of one /process handler, in the order of its code
StageOrder ==
  {<<"idle", "ocr">>, <<"idle", "done">>,
   <<"ocr", "translate">>, <<"ocr", "done">>,
   <<"translate", "interpret">>, <<"translate", "done">>,
   <<"interpret", "store_sanskrit">>, <<"interpret", "done">>,
   <<"store_sanskrit", "store_english">>,
   <<"store_english", "store_interpretation">>,
   <<"store_interpretation", "done">>}

StagesInOrder(p) ==
  /\ proc[p].translateCalls >= 1
       => /\ proc[p].ocrCalls = 1
          /\ proc[p].ocrKind = "text"
          /\ proc[p].failedAt \notin {"ocr", "normalize"}
  /\ proc[p].pc = "translate"
       => /\ proc[p].sanskrit_text \notin {<<>>, NoneVal}
          /\ proc[p].transliterated_text = transliterate_sanskrit(proc[p].sanskrit_text)
  /\ proc[p].interpretCalls >= 1
       => /\ proc[p].translateCalls = 1
          /\ proc[p].failedAt # "translate"
  /\ proc[p].pc = "interpret"
       => /\ proc[p].english_text # <<>>
          /\ proc[p].interpretPrompt =
               <<"The following is a translated excerpt from an ancient Sanskrit manuscript:\n",
                 "Text: ">> \o proc[p].english_text
                 \o <<"\n\n", "Provide a concise summary (2-3 sentences) ...">>
  /\ (proc[p].pc \in StorePcs \/ proc[p].status = 200)
       => /\ proc[p].interpretCalls = 1
          /\ proc[p].interpretKind \in {"text", "noshape"}
          /\ proc[p].failedAt = "none"

\* C13: a /process request runs Extractor, Normalizer, Translator,
\* Interpreter and the store in this order: the translation call is issued
\* only after a non-empty extraction and a normalization, the interpretation
\* call only after a non-empty translation, and the context is written only by
\* a request whose interpretation has returned.
C13_StagesInOrder ==
  /\ [](\A p \in ProcIds : StagesInOrder(p))
  /\ [][/\ \A p \in ProcIds :
             proc'[p].pc # proc[p].pc => <<proc[p].pc, proc'[p].pc>> \in StageOrder
        /\ global_context' # global_context
             => \E p \in ProcIds : proc[p].pc \in StorePcs /\ proc'[p].pc # proc[p].pc
       ]_vars

C13_Witness ==
  \E p \in ProcIds :
    /\ proc[p].status = 200
    /\ proc[p].ocrCalls = 1 /\ proc[p].translateCalls = 1 /\ proc[p].interpretCalls = 1
    /\ global_context.interpretation = proc[p].body.interpretation

\* C14: the context changes only in a store step of a /process request that
\* has passed all its stages; such a request is answered 200, a request
\* answered 400 or 500 has made no store step, and no step of a /chatbot
\* request changes the context.
C14_ContextFrame ==
  [][/\ \A p \in ProcIds :
          /\ (proc'[p] # proc[p] /\ proc[p].pc \notin StorePcs)
               => global_context' = global_context
          /\ (proc'[p].pc = "done" /\ proc[p].pc \in StorePcs)
               => proc'[p].status = 200
          /\ (proc'[p].pc = "done" /\ proc[p].pc \notin StorePcs \cup {"done"})
               => /\ proc'[p].status \in {400, 500}
                  /\ global_context' = global_context
     /\ \A c \in ChatIds : chat'[c] # chat[c] => global_context' = global_context
     /\ global_context' # global_context
          => \E p \in ProcIds :
               /\ proc[p].pc \in StorePcs
               /\ proc'[p].pc # proc[p].pc
               /\ proc[p].interpretKind \in {"text", "noshape"}
    ]_vars

C14_Witness ==
  \E p, q \in ProcIds :
    /\ proc[p].status = 500 /\ proc[p].failure = <<"Translation failed">>
    /\ proc[q].status = 200 /\ global_context = proc[q].body
    /\ \E c \in ChatIds : chat[c].status = 200

\* C15: a /process request issues at most one OCR, one translation and one
\* interpretation call, a /chatbot request at most one generative call; a
\* request that has answered stays as it is, its status being 200, 400 or
\* 500; and when every outbound call returns or fails, every request that has
\* arrived answers.
C15_NoRetryAndTermination ==
  /\ [](/\ \A p \in ProcIds :
             /\ proc[p].ocrCalls <= 1
             /\ proc[p].translateCalls <= 1
             /\ proc[p].interpretCalls <= 1
             /\ proc[p].pc = "done" <=> proc[p].status \in {200, 400, 500}
             /\ proc[p].pc # "done" => proc[p].status = 0
        /\ \A c \in ChatIds :
             /\ chat[c].geminiCalls <= 1
             /\ chat[c].pc = "done" <=> chat[c].status \in {200, 400, 500}
             /\ chat[c].pc # "done" => chat[c].status = 0)
  /\ [][/\ \A p \in ProcIds : proc[p].pc = "done" => proc'[p] = proc[p]
        /\ \A c \in ChatIds : chat[c].pc = "done" => chat'[c] = chat[c]]_vars
  /\ \A p \in ProcIds : (proc[p].pc # "idle") ~> (proc[p].pc = "done")
  /\ \A c \in ChatIds : (chat[c].pc # "idle") ~> (chat[c].pc = "done")

C15_Witness ==
  /\ \A p \in ProcIds : proc[p].pc = "done"
  /\ \A c \in ChatIds : chat[c].pc = "done" /\ chat[c].geminiCalls = 1
  /\ \E p, q \in ProcIds :
       /\ proc[p].status = 200
       /\ proc[p].ocrCalls = 1 /\ proc[p].translateCalls = 1 /\ proc[p].interpretCalls = 1
       /\ proc[q].status = 500 /\ proc[q].ocrCalls = 1

\* C16: the three context fields in the prompt of a /chatbot request are the
\* initial empty triple or the triple of one /process request that answered
\* 200.
C16_PromptFromOneSource ==
  \A c \in ChatIds :
    chat[c].pc = "gemini"
      => LET read == [sanskrit_text |-> chat[c].s, english_text |-> chat[c].e,
                      interpretation |-> chat[c].i]
         IN /\ chat[c].prompt =
                 ChatPrompt(chat[c].s, chat[c].e, chat[c].i, chat[c].user_query)
            /\ \/ read = InitialContext
               \/ \E p \in ProcIds : proc[p].status = 200 /\ proc[p].body = read

====
